---- MODULE Spec2Model ----
(***************************************************************************)
(* Weekly coaching tracker: the LLM client's key rotation                  *)
(* (modules/groq_client.py), the tracker builder (modules/tracker.py) and  *)
(* the data handler's helpers (modules/data_handler.py).                   *)
(***************************************************************************)
EXTENDS Integers, Sequences, FiniteSets, TLC

VARIABLES
    \* ---- LLM client (groq_client.py) ----
    api_keys,          \* get_api_keys_from_env(): the configured keys, in order
    groq_key_index,    \* st.session_state.groq_key_index
    groq_key_limits,   \* st.session_state.groq_key_limits (defaultdict(bool))
    pc,                \* position of the running call
    caller,            \* "groq_chat_completion" | "groq_complete" | "none"
    depth,             \* recursion depth of get_next_groq_client (line 108)
    current_index,     \* local of get_next_groq_client
    i,                 \* loop variable of line 84
    client,            \* value returned by get_next_groq_client
    result,            \* value returned to the caller of the completion
    exc,               \* an exception is propagating out of the running call
    tried,             \* keys probed by the running activation of get_next_groq_client
    nprobes,           \* probes made since the caller entered get_next_groq_client
    reprobed,          \* some key was probed twice since then
    probed,            \* keys probed since then
    rl_keys,           \* keys whose request failed with a rate limit since the last reset
    answer,            \* the service's answer to the completion request of the running call
    \* ---- pick_first_available_column (data_handler.py) ----
    pick_df,           \* the table argument
    pick_candidates,   \* the candidate list argument
    pick_result,       \* the returned column label, or None
    pick_pc,           \* "input" while the arguments are built, "done" after the call
    \* ---- generate_tracker (tracker.py) ----
    manual_df,         \* the manual assessments table
    sn_df,             \* the ticketing export
    month_n,           \* the selected month
    week_n,            \* the selected week of the month
    tracker,           \* what generate_tracker gave: an error or the rows
    llm_requests,      \* the employees a completion was requested for, in order
    pending,           \* the employees the loop of line 120 has not reached yet
    trk_pc,            \* "input" while the tables are loaded, "loop" in the loop
                       \* of line 120, "done" after the call
    \* ---- week_of_month (data_handler.py) ----
    wom_date,          \* the date argument
    wom_result,        \* the returned week of the month, 0 before the call
    wom_pc             \* "input" before the call, "done" after it

llm_vars == <<api_keys, groq_key_index, groq_key_limits, pc, caller, depth,
              current_index, i, client, result, exc, tried, nprobes, reprobed,
              probed, rl_keys, answer>>

pick_vars == <<pick_df, pick_candidates, pick_result, pick_pc>>

trk_vars == <<manual_df, sn_df, month_n, week_n, tracker, llm_requests, pending, trk_pc>>

wom_vars == <<wom_date, wom_result, wom_pc>>

vars == <<llm_vars, pick_vars, trk_vars, wom_vars>>

\* ------------------------------------------------------------------ bounds
MaxKeys == 3
RecursionLimit == 2
MaxCols == 2
MaxCands == 2
MaxRows == 3
MaxYearSpan == 3


\* ------------------------------------------------------------------ text
\* A Python str is a sequence of one-character strings; None is a value no
\* str equals.
None == <<"None">>

LowerChars == <<"a", "b", "c", "d", "e", "f", "g", "h", "i", "j", "k", "l", "m", "n", "o", "p", "q", "r", "s", "t", "u", "v", "w", "x", "y", "z">>
UpperChars == <<"A", "B", "C", "D", "E", "F", "G", "H", "I", "J", "K", "L", "M", "N", "O", "P", "Q", "R", "S", "T", "U", "V", "W", "X", "Y", "Z">>
DigitChars == <<"0", "1", "2", "3", "4", "5", "6", "7", "8", "9">>
SpaceChars == {" ", "\t", "\n", "\r"}

Min(S) == CHOOSE x \in S : \A y \in S : x <= y
Max(S) == CHOOSE x \in S : \A y \in S : x >= y

IndexIn(c, chars) ==
    IF \E j \in 1 .. Len(chars) : chars[j] = c
    THEN CHOOSE j \in 1 .. Len(chars) : chars[j] = c
    ELSE 0

ToLower == [ch \in {UpperChars[j] : j \in 1 .. Len(UpperChars)} |->
               LowerChars[IndexIn(ch, UpperChars)]]
ToUpper == [ch \in {LowerChars[j] : j \in 1 .. Len(LowerChars)} |->
               UpperChars[IndexIn(ch, LowerChars)]]
DigitOf == [ch \in {DigitChars[j] : j \in 1 .. Len(DigitChars)} |->
               IndexIn(ch, DigitChars) - 1]
LowerLetters == DOMAIN ToUpper
IsDigit(ch) == ch \in DOMAIN DigitOf

\* str.lower(), one character
LowerChar(ch) == IF ch \in DOMAIN ToLower THEN ToLower[ch] ELSE ch
\* str.upper(), one character
UpperChar(ch) == IF ch \in DOMAIN ToUpper THEN ToUpper[ch] ELSE ch

lower(s) == [j \in 1 .. Len(s) |-> LowerChar(s[j])]
upper(s) == [j \in 1 .. Len(s) |-> UpperChar(s[j])]

\* str.strip(): leading and trailing whitespace removed
strip(s) ==
    LET keep == {j \in 1 .. Len(s) : s[j] \notin SpaceChars} IN
    IF keep = {} THEN <<>> ELSE SubSeq(s, Min(keep), Max(keep))

\* the characters of s that satisfy Keep, in order
RECURSIVE FilterChars(_, _)
FilterChars(s, keepset) ==
    IF s = <<>> THEN <<>>
    ELSE (IF Head(s) \in keepset THEN <<Head(s)>> ELSE <<>>) \o FilterChars(Tail(s), keepset)

SeqToSet(s) == {s[j] : j \in 1 .. Len(s)}

\* ---------------------------------------------------------- data handler
\* A table: df is None, or has column labels and rows (one cell per column).
\* df.empty is true when either axis has length 0.
DfEmpty(df) == Len(df.columns) = 0 \/ Len(df.rows) = 0

\* pick_first_available_column.norm
norm(s) == strip(lower(s))
\* pick_first_available_column.norm_simple: re.sub(r"[^a-z]", "", norm(s))
norm_simple(s) == FilterChars(norm(s), LowerLetters)

\* a faulty variant of FirstIndex: a plain assignment, the right-most column wins
FirstIndexRightmost(S) == Max(S)
\* dict.setdefault over df.columns: the left-most column with that key wins
FirstIndex(S) == Min(S)

\* lower_map / simple_map (lines 36-40): the keys of the columns, in column
\* order; a lookup gives the index of the column stored under key, 0 if absent
MapIndex(keys, key) ==
    LET S == {j \in 1 .. Len(keys) : keys[j] = key} IN
    IF S = {} THEN 0 ELSE FirstIndex(S)

\* the first candidate whose key is in the map, 0 if none is (lines 41-48)
FirstHit(keys, cand_keys) ==
    LET hits == {q \in 1 .. Len(cand_keys) : MapIndex(keys, cand_keys[q]) # 0} IN
    IF hits = {} THEN 0 ELSE Min(hits)

\* lines 36-40: the keys lower_map and simple_map hold, in column order
ColumnKeys(df) ==
    [ lower |-> [j \in 1 .. Len(df.columns) |-> norm(df.columns[j])],
      simple |-> [j \in 1 .. Len(df.columns) |-> norm_simple(df.columns[j])] ]

\* lines 41-49: the candidates against lower_map, then against simple_map
PickFromMaps(df, maps, cand_lower, cand_simple) ==
    LET hit1 == FirstHit(maps.lower, cand_lower)
        hit2 == FirstHit(maps.simple, cand_simple)
    IN  IF hit1 # 0
        THEN df.columns[MapIndex(maps.lower, cand_lower[hit1])]
        ELSE IF hit2 # 0
             THEN df.columns[MapIndex(maps.simple, cand_simple[hit2])]
             ELSE None

\* data_handler.py lines 21-49
pick_first_available_column(df, candidates) ==
    IF df.is_none \/ DfEmpty(df) THEN None
    ELSE PickFromMaps(df, ColumnKeys(df),
                      [q \in 1 .. Len(candidates) |-> norm(candidates[q])],
                      [q \in 1 .. Len(candidates) |-> norm_simple(candidates[q])])

\* ------------------------------------------------------------------ cells
\* A spreadsheet cell: a str, an int, a date, NaN (a blank cell) or Python's
\* None (what row.get gives for a column that is not there).
Str(chars) == [k |-> "str", s |-> chars, n |-> 0, c |-> 0]
Num(v) == [k |-> "num", s |-> <<>>, n |-> v, c |-> 0]
Date(y, m, d) == [k |-> "date", s |-> <<>>, n |-> (y * 10000) + (m * 100) + d, c |-> 0]
NaN == [k |-> "nan", s |-> <<>>, n |-> 0, c |-> 0]
NoneCell == [k |-> "none", s |-> <<>>, n |-> 0, c |-> 0]
\* a mean, kept as the sum of its values (in tenths) and their number
Avg(sum10, cnt) == [k |-> "avg", s |-> <<>>, n |-> sum10, c |-> cnt]
\* the text a successful completion returns
LLMText == [k |-> "llm", s |-> <<>>, n |-> 0, c |-> 0]
EmptyStr == Str(<<>>)

DateYear(cell) == cell.n \div 10000
DateMonth(cell) == (cell.n \div 100) % 100
DateDay(cell) == cell.n % 100

RECURSIVE IntToChars(_)
IntToChars(v) ==
    IF v < 10 THEN <<DigitChars[v + 1]>>
    ELSE IntToChars(v \div 10) \o <<DigitChars[(v % 10) + 1]>>

TwoDigits(v) == <<DigitChars[(v \div 10) + 1], DigitChars[(v % 10) + 1]>>

\* str(x)
PyStr(cell) ==
    CASE cell.k = "str" -> cell.s
      [] cell.k = "num" -> IntToChars(cell.n)
      [] cell.k = "nan" -> <<"n", "a", "n">>
      [] cell.k = "date" ->
            IntToChars(DateYear(cell)) \o <<"-">> \o TwoDigits(DateMonth(cell))
                \o <<"-">> \o TwoDigits(DateDay(cell))
      [] OTHER -> None

\* bool(x), as in "if tl:": NaN is a non-zero float and so true
Truthy(cell) ==
    CASE cell.k = "str" -> cell.s # <<>>
      [] cell.k = "num" -> cell.n # 0
      [] cell.k = "none" -> FALSE
      [] OTHER -> TRUE

\* code points, ascending: the order sorted() puts str in
CodeOrder == <<"\t", "\n", "\r", " ", ",", "-", ".", "/", "0", "1", "2", "3", "4", "5", "6", "7", "8", "9", "A", "B", "C", "D", "E", "F", "G", "H", "I", "J", "K", "L", "M", "N", "O", "P", "Q", "R", "S", "T", "U", "V", "W", "X", "Y", "Z", "_", "a", "b", "c", "d", "e", "f", "g", "h", "i", "j", "k", "l", "m", "n", "o", "p", "q", "r", "s", "t", "u", "v", "w", "x", "y", "z">>
CodeOf == [ch \in {CodeOrder[j] : j \in 1 .. Len(CodeOrder)} |-> IndexIn(ch, CodeOrder)]
CharCode(ch) == CodeOf[ch]

RECURSIVE StrLess(_, _)
StrLess(a, b) ==
    IF b = <<>> THEN FALSE
    ELSE IF a = <<>> THEN TRUE
    ELSE IF Head(a) = Head(b) THEN StrLess(Tail(a), Tail(b))
    ELSE CharCode(Head(a)) < CharCode(Head(b))

\* sorted(set_of_str)
RECURSIVE sorted(_)
sorted(S) ==
    IF S = {} THEN <<>>
    ELSE LET lo == CHOOSE x \in S : \A y \in S \ {x} : StrLess(x, y)
         IN  <<lo>> \o sorted(S \ {lo})

\* _norm applied to a str (data_handler.py lines 16-17)
NormStr(chars) == strip(chars)

\* whitespace runs collapsed to one space
RECURSIVE CollapseSpaces(_)
CollapseSpaces(chars) ==
    IF Len(chars) < 2 THEN chars
    ELSE IF chars[1] \in SpaceChars /\ chars[2] \in SpaceChars
         THEN CollapseSpaces(<<" ">> \o SubSeq(chars, 3, Len(chars)))
         ELSE <<(IF chars[1] \in SpaceChars THEN " " ELSE chars[1])>>
                  \o CollapseSpaces(Tail(chars))

\* build_employee_key: the case/whitespace normalized identity key of a name
\* cell; the empty str for a blank cell
build_employee_key(cell) ==
    IF cell.k \in {"nan", "none"} THEN <<>>
    ELSE CollapseSpaces(strip(lower(PyStr(cell))))

\* ------------------------------------------------------- tracker: columns
COLUMN_CANDIDATES ==
    [
      employee_name |->
        <<<<"E", "m", "p", "l", "o", "y", "e", "e", " ", "N", "a", "m", "e">>,
          <<"A", "n", "a", "l", "y", "s", "t", " ", "N", "a", "m", "e">>,
          <<"T", "r", "a", "i", "n", "e", "e">>,
          <<"A", "n", "a", "l", "y", "s", "t">>,
          <<"N", "a", "m", "e">>>>,
      trainee_name |->
        <<<<"T", "r", "a", "i", "n", "e", "e">>,
          <<"T", "r", "a", "i", "n", "e", "e", " ", "N", "a", "m", "e">>,
          <<"A", "n", "a", "l", "y", "s", "t", " ", "N", "a", "m", "e">>,
          <<"E", "m", "p", "l", "o", "y", "e", "e", " ", "N", "a", "m", "e">>,
          <<"A", "n", "a", "l", "y", "s", "t">>>>,
      analyst_name |->
        <<<<"A", "n", "a", "l", "y", "s", "t", " ", "N", "a", "m", "e">>,
          <<"E", "m", "p", "l", "o", "y", "e", "e", " ", "N", "a", "m", "e">>,
          <<"A", "n", "a", "l", "y", "s", "t">>>>,
      team_lead |->
        <<<<"T", "e", "a", "m", " ", "L", "e", "a", "d">>,
          <<"T", "e", "a", "m", " ", "L", "e", "a", "d", "e", "r">>,
          <<"T", "L">>,
          <<"M", "a", "n", "a", "g", "e", "r">>,
          <<"R", "e", "p", "o", "r", "t", "i", "n", "g", " ", "M", "a", "n", "a", "g", "e", "r">>>>,
      manager |->
        <<<<"M", "a", "n", "a", "g", "e", "r">>,
          <<"R", "e", "p", "o", "r", "t", "i", "n", "g", " ", "M", "a", "n", "a", "g", "e", "r">>,
          <<"S", "u", "p", "e", "r", "v", "i", "s", "o", "r">>>>,
      quality_assessor |->
        <<<<"A", "s", "s", "e", "s", "s", "o", "r">>,
          <<"Q", "u", "a", "l", "i", "t", "y", " ", "A", "s", "s", "e", "s", "s", "o", "r">>,
          <<"Q", "A">>,
          <<"Q", "u", "a", "l", "i", "t", "y", " ", "A", "n", "a", "l", "y", "s", "t">>,
          <<"A", "n", "a", "l", "y", "s", "t", " ", "N", "a", "m", "e">>,
          <<"C", "o", "a", "c", "h">>>>,
      week |->
        <<<<"W", "e", "e", "k">>,
          <<"W", "e", "e", "k", " ", "N", "u", "m", "b", "e", "r">>,
          <<"W", "e", "e", "k", "_", "o", "f", "_", "M", "o", "n", "t", "h">>,
          <<"W", "O", "M">>>>,
      date |->
        <<<<"D", "a", "t", "e">>,
          <<"A", "s", "s", "e", "s", "s", "e", "d", " ", "O", "n">>,
          <<"C", "r", "e", "a", "t", "e", "d">>,
          <<"A", "s", "s", "e", "s", "s", "m", "e", "n", "t", " ", "D", "a", "t", "e">>>>,
      sn_rating |->
        <<<<"T", "r", "a", "i", "n", "e", "e", " ", "r", "a", "t", "i", "n", "g">>,
          <<"T", "r", "a", "i", "n", "e", "e", " ", "R", "a", "t", "i", "n", "g">>,
          <<"R", "a", "t", "i", "n", "g">>>>,
      manual_grade |->
        <<<<"G", "r", "a", "d", "e">>,
          <<"S", "c", "o", "r", "e">>,
          <<"M", "a", "r", "k", "s">>>>,
      comments |->
        <<<<"C", "o", "m", "m", "e", "n", "t", "s">>,
          <<"N", "o", "t", "e", "s">>,
          <<"Q", "A", " ", "C", "o", "m", "m", "e", "n", "t", "s">>,
          <<"R", "e", "v", "i", "e", "w", "e", "r", " ", "C", "o", "m", "m", "e", "n", "t", "s">>>>
    ]

ColTruthy(col) == col # None /\ col # <<>>

\* a or b, on column labels
OrElse(a, b) == IF ColTruthy(a) THEN a ELSE b

\* norm and norm_simple of every candidate (lines 42 and 46)
CANDIDATE_KEYS ==
    [ f \in DOMAIN COLUMN_CANDIDATES |->
        [ lower |-> [q \in 1 .. Len(COLUMN_CANDIDATES[f]) |-> norm(COLUMN_CANDIDATES[f][q])],
          simple |-> [q \in 1 .. Len(COLUMN_CANDIDATES[f]) |->
                          norm_simple(COLUMN_CANDIDATES[f][q])] ] ]

\* tracker.py lines 30-43; pick(f) is
\* pick_first_available_column(df, COLUMN_CANDIDATES[f]), the maps of the
\* table's columns built once for the eleven calls
extract_people_fields(df) ==
    LET maps == ColumnKeys(df)
        pick(f) == IF df.is_none \/ DfEmpty(df) THEN None
                   ELSE PickFromMaps(df, maps, CANDIDATE_KEYS[f].lower,
                                     CANDIDATE_KEYS[f].simple)
    IN
    [ name_col |->
          OrElse(pick("employee_name"), OrElse(pick("trainee_name"), pick("analyst_name"))),
      tl_col |-> OrElse(pick("team_lead"), pick("manager")),
      qa_col |-> pick("quality_assessor"),
      week_col |-> pick("week"),
      date_col |-> pick("date"),
      sn_rating_col |-> pick("sn_rating"),
      manual_grade_col |-> pick("manual_grade"),
      comments_col |-> pick("comments") ]

\* position of a column label in the table, 0 if it is not a column
ColIndex(df, col) == IndexIn(col, df.columns)

\* row.get(col) if col else None
RowGet(df, row, col) ==
    IF ~ColTruthy(col) \/ ColIndex(df, col) = 0 THEN NoneCell ELSE row[ColIndex(df, col)]


\* ----------------------------------------------------- tracker: week filter
\* date.replace(day=1).weekday(): Monday is 0
FirstWeekday(y, m) ==
    LET t == <<0, 3, 2, 5, 0, 3, 5, 1, 4, 6, 2, 4>>
        yy == IF m < 3 THEN y - 1 ELSE y
        sunday0 == (yy + (yy \div 4) - (yy \div 100) + (yy \div 400) + t[m] + 1) % 7
    IN  (sunday0 + 6) % 7

\* a faulty variant of week_of_month: the weekday of the 1st left out
week_of_month_plain(date) == (DateDay(date) + 6) \div 7
\* data_handler.py lines 52-55: int(math.ceil(adjusted_dom / 7.0))
week_of_month(date) ==
    LET adjusted_dom == DateDay(date) + FirstWeekday(DateYear(date), DateMonth(date))
    IN  (adjusted_dom + 6) \div 7

\* data_handler.py lines 58-68. Anything else goes through
\* pd.to_datetime(errors="coerce"): a small int is that many nanoseconds after
\* 1970-01-01, a str that is no date (every str cell here) gives NaT, and
\* NaT.date() is NaT.
NaT == [k |-> "nat", s |-> <<>>, n |-> 0, c |-> 0]
to_date(cell) ==
    CASE cell.k = "nan" -> NoneCell
      [] cell.k = "date" -> cell
      [] cell.k = "num" -> Date(1970, 1, 1)
      [] OTHER -> NaT

RECURSIVE DigitsValue(_)
DigitsValue(chars) ==
    IF chars = <<>> THEN 0
    ELSE (DigitsValue(SubSeq(chars, 1, Len(chars) - 1)) * 10)
             + DigitOf[chars[Len(chars)]]

\* astype(str).str.extract(r"(\d+)")[0].astype(float): the first run of digits
\* as a number, -1 standing for NaN (no digit)
FirstNumber(chars) ==
    LET digits == {j \in 1 .. Len(chars) : IsDigit(chars[j])} IN
    IF digits = {} THEN -1
    ELSE LET from == Min(digits)
             upto == Max({j \in from .. Len(chars) : \A q \in from .. j : q \in digits})
         IN  DigitsValue(SubSeq(chars, from, upto))

\* a faulty variant of WeekCellMatches: the week column is not compared
WeekCellAlways(cell, wn) == TRUE
\* line 53: wvals == week_n, one row
WeekCellMatches(cell, wn) == FirstNumber(PyStr(cell)) = wn

\* lines 56-58, one row: (months == month_n) & (wom == week_n), NaN for None
DateCellMatches(cell, mn, wn) ==
    LET d == to_date(cell) IN
    /\ d.k = "date"
    /\ DateMonth(d) = mn
    /\ week_of_month(d) = wn

\* tracker.py lines 46-61. week_of_month(NaT) ends in math.ceil(nan): ValueError
get_week_filter_mask(df, week_col, date_col, mn, wn) ==
    IF df.is_none \/ DfEmpty(df) THEN [err |-> "none", mask |-> <<>>]
    ELSE IF ColTruthy(week_col) /\ ColIndex(df, week_col) # 0
    THEN [err |-> "none",
          mask |-> [j \in 1 .. Len(df.rows) |->
                        WeekCellMatches(RowGet(df, df.rows[j], week_col), wn)]]
    ELSE IF ColTruthy(date_col) /\ ColIndex(df, date_col) # 0
    THEN [err |-> IF \E j \in 1 .. Len(df.rows) :
                        to_date(RowGet(df, df.rows[j], date_col)).k = "nat"
                  THEN "ValueError" ELSE "none",
          mask |-> [j \in 1 .. Len(df.rows) |->
                        DateCellMatches(RowGet(df, df.rows[j], date_col), mn, wn)]]
    ELSE [err |-> "none", mask |-> [j \in 1 .. Len(df.rows) |-> TRUE]]

\* df[mask]
RECURSIVE SelectRows(_, _)
SelectRows(rows, mask) ==
    IF rows = <<>> THEN <<>>
    ELSE (IF Head(mask) THEN <<Head(rows)>> ELSE <<>>) \o SelectRows(Tail(rows), Tail(mask))

\* ---------------------------------------------------- tracker: aggregation
\* a faulty variant of EmployeeKeyOfRow: the name cell's text as it is
EmployeeKeyOfRowRaw(df, cols, row) == PyStr(RowGet(df, row, cols.name_col))
\* line 101: name = build_employee_key(row.get(cols["name_col"]))
EmployeeKeyOfRow(df, cols, row) == build_employee_key(RowGet(df, row, cols.name_col))

\* lines 89-92: df[name_col].dropna().astype(str).map(build_employee_key), as a set
NameKeys(df, rows, cols) ==
    IF ~ColTruthy(cols.name_col) THEN {}
    ELSE { build_employee_key(Str(PyStr(RowGet(df, rows[j], cols.name_col)))) :
               j \in {q \in 1 .. Len(rows) : RowGet(df, rows[q], cols.name_col).k # "nan"} }

\* a faulty variant of AllNameKeys: the ticketing export's names left out
AllNamesManualOnly(mkeys, skeys) == mkeys
\* line 93, the union: set(manual_names.dropna()).union(set(sn_names.dropna()))
AllNameKeys(mkeys, skeys) == mkeys \cup skeys

\* lines 95-114, per_employee(df, cols)[name][field]: "str" fields keep str(x)
\* of the true cells, "raw" fields keep every cell that is not None
RECURSIVE Collect(_, _, _, _, _, _)
Collect(df, rows, cols, name, col, mode) ==
    IF rows = <<>> \/ ~ColTruthy(cols.name_col) THEN <<>>
    ELSE LET row == Head(rows)
             key == EmployeeKeyOfRow(df, cols, row)
             cell == RowGet(df, row, col)
             here == IF key = <<>> \/ key # name THEN <<>>
                     ELSE IF mode = "str"
                          THEN (IF Truthy(cell) THEN <<PyStr(cell)>> ELSE <<>>)
                          ELSE (IF cell.k # "none" THEN <<cell>> ELSE <<>>)
         IN  here \o Collect(df, Tail(rows), cols, name, col, mode)

RECURSIVE MapNormNonEmpty(_)
\* [_norm(x) for x in xs if _norm(x)]
MapNormNonEmpty(xs) ==
    IF xs = <<>> THEN <<>>
    ELSE (IF NormStr(Head(xs)) # <<>> THEN <<NormStr(Head(xs))>> ELSE <<>>)
             \o MapNormNonEmpty(Tail(xs))

Count(xs, v) == Cardinality({j \in 1 .. Len(xs) : xs[j] = v})
FirstOcc(xs, v) == Min({j \in 1 .. Len(xs) : xs[j] = v})

\* Counter(xs).most_common(1)[0][0]: the highest count, the first seen on a tie
most_common(xs) ==
    xs[CHOOSE j \in 1 .. Len(xs) :
          /\ j = FirstOcc(xs, xs[j])
          /\ \A q \in 1 .. Len(xs) :
                \/ Count(xs, xs[q]) < Count(xs, xs[j])
                \/ Count(xs, xs[q]) = Count(xs, xs[j]) /\ j <= FirstOcc(xs, xs[q])]

\* lines 127-130
TeamLeadFinal(team_leads) ==
    IF MapNormNonEmpty(team_leads) = <<>> THEN None
    ELSE most_common(MapNormNonEmpty(team_leads))

RECURSIVE Join(_, _)
Join(parts, sep) ==
    IF parts = <<>> THEN <<>>
    ELSE IF Len(parts) = 1 THEN parts[1]
    ELSE parts[1] \o sep \o Join(Tail(parts), sep)

\* line 132: ", ".join(sorted(set(...))) or None
AssessorsFinal(assessors) ==
    LET joined == Join(sorted(SeqToSet(MapNormNonEmpty(assessors))), <<",", " ">>)
    IN  IF joined = <<>> THEN None ELSE joined

\* pd.to_numeric(x, errors="coerce") of one cell, in tenths; -1 stands for NaN
ToNumeric(cell) ==
    CASE cell.k = "num" -> cell.n * 10
      [] cell.k = "str" /\ cell.s # <<>>
            /\ \A j \in 1 .. Len(cell.s) : IsDigit(cell.s[j])
         -> DigitsValue(cell.s) * 10
      [] OTHER -> -1

RECURSIVE SumSeq(_)
SumSeq(xs) == IF xs = <<>> THEN 0 ELSE Head(xs) + SumSeq(Tail(xs))

RECURSIVE DropNaN(_)
DropNaN(xs) ==
    IF xs = <<>> THEN <<>>
    ELSE (IF Head(xs) = -1 THEN <<>> ELSE <<Head(xs)>>) \o DropNaN(Tail(xs))

\* line 124: pd.to_numeric(...).dropna().tolist()
NumericValues(cells) == DropNaN([j \in 1 .. Len(cells) |-> ToNumeric(cells[j])])

\* data_handler.py lines 75-86, in tenths; -1 stands for None
letter_grade_to_score(cell) ==
    LET g == IF cell.k \in {"nan", "none"} THEN <<>> ELSE upper(strip(PyStr(cell))) IN
    CASE g = <<"A", "+">> -> 50
      [] g = <<"A">> -> 50
      [] g = <<"A", "-">> -> 47
      [] g = <<"B", "+">> -> 43
      [] g = <<"B">> -> 40
      [] g = <<"B", "-">> -> 37
      [] g = <<"C", "+">> -> 33
      [] g = <<"C">> -> 30
      [] g = <<"C", "-">> -> 27
      [] g = <<"D", "+">> -> 23
      [] g = <<"D">> -> 20
      [] g = <<"D", "-">> -> 17
      [] g = <<"E">> -> 10
      [] g = <<"F">> -> 0
      [] OTHER -> -1

MeanOf(vals) == IF vals = <<>> THEN NoneCell ELSE Avg(SumSeq(vals), Len(vals))

\* data_handler.py lines 89-96
average_of_grades(cells) ==
    IF NumericValues(cells) # <<>>
    THEN MeanOf(NumericValues(cells))
    ELSE MeanOf(DropNaN([j \in 1 .. Len(cells) |-> letter_grade_to_score(cells[j])]))

\* line 135: the manual assessment count
ManualCount(manual_grades) == Len(manual_grades)

\* x if x is not None else "" / x or ""
OrEmpty(cell) == IF cell.k = "none" THEN EmptyStr ELSE cell
\* a faulty variant of CountOrEmpty: a count of 0 is reported as 0
CountAsNumber(v) == Num(v)
\* service_now_count if service_now_count else "" (lines 146, 148)
CountOrEmpty(v) == IF v = 0 THEN EmptyStr ELSE Num(v)
StrOrEmpty(chars) == IF chars = None THEN <<>> ELSE chars

\* lines 64-70: the cleaned comments the prompt is built from. clean_comment
\* shapes only the prompt's text; whether a request is made depends on the
\* list being non-empty, one entry per comment with a non-blank _norm
CleanedBitsCount(comments) == Len(MapNormNonEmpty(comments))

\* one spreadsheet inside generate_tracker: the table, its resolved columns
\* and the rows the week filter kept (lines 86-87)
Side(df, cols, rows) == [df |-> df, cols |-> cols, rows |-> rows]
FilterSide(df, cols, m) ==
    Side(df, cols, IF Len(df.rows) > 0 THEN SelectRows(df.rows, m.mask) ELSE <<>>)

\* lines 116-117: manual_agg[name][field] / sn_agg[name][field]
Agg(side, name, col, mode) == Collect(side.df, side.rows, side.cols, name, col, mode)

\* lines 127-153: the fields of one employee from what was collected; asks
\* says whether line 137 will request a completion (a cleaned comment is there)
EmployeeFields(name, mn, wn, team_leads, assessors, comments, sn_ratings, manual_grades) ==
    [ name |-> name,
      team_lead |-> StrOrEmpty(TeamLeadFinal(team_leads)),
      assessors |-> StrOrEmpty(AssessorsFinal(assessors)),
      week |-> <<mn, wn>>,
      sn_count |-> CountOrEmpty(Len(sn_ratings)),
      sn_avg |-> OrEmpty(MeanOf(sn_ratings)),
      manual_count |-> CountOrEmpty(ManualCount(manual_grades)),
      manual_avg |-> OrEmpty(IF ManualCount(manual_grades) # 0
                             THEN average_of_grades(manual_grades)
                             ELSE NoneCell),
      areas |-> EmptyStr,
      asks |-> CleanedBitsCount(comments) > 0 ]

\* lines 120-126: what the loop gathers for one employee
EmployeeRecord(M, S, name, mn, wn) ==
    EmployeeFields(name, mn, wn,
        Agg(M, name, M.cols.tl_col, "str") \o Agg(S, name, S.cols.tl_col, "str"),
        Agg(M, name, M.cols.qa_col, "str") \o Agg(S, name, S.cols.qa_col, "str"),
        Agg(M, name, M.cols.comments_col, "str") \o Agg(S, name, S.cols.comments_col, "str"),
        NumericValues(Agg(S, name, S.cols.sn_rating_col, "raw")),
        Agg(M, name, M.cols.manual_grade_col, "raw"))

\* line 120: for name in all_names
RecordsFor(all_names, M, S, mn, wn) ==
    [j \in 1 .. Len(all_names) |-> EmployeeRecord(M, S, all_names[j], mn, wn)]

\* line 93: all_names = sorted(manual names | sn names), of the filtered rows
AllNamesOf(M, S) ==
    sorted(AllNameKeys(NameKeys(M.df, M.rows, M.cols), NameKeys(S.df, S.rows, S.cols)))

\* lines 86-153 once both masks are there; err is the error raised, if any
WithMasks(manual_df_, sn_df_, mn, wn, m_cols, s_cols, m_mask, s_mask) ==
    IF m_mask.err # "none" THEN [err |-> m_mask.err, recs |-> <<>>]
    ELSE IF s_mask.err # "none" THEN [err |-> s_mask.err, recs |-> <<>>]
    ELSE [err |-> "none",
          recs |-> RecordsFor(AllNamesOf(FilterSide(manual_df_, m_cols, m_mask),
                                         FilterSide(sn_df_, s_cols, s_mask)),
                              FilterSide(manual_df_, m_cols, m_mask),
                              FilterSide(sn_df_, s_cols, s_mask), mn, wn)]

\* lines 84-85: the two week filters
WithColumns(manual_df_, sn_df_, mn, wn, m_cols, s_cols) ==
    WithMasks(manual_df_, sn_df_, mn, wn, m_cols, s_cols,
              get_week_filter_mask(manual_df_, m_cols.week_col, m_cols.date_col, mn, wn),
              get_week_filter_mask(sn_df_, s_cols.week_col, s_cols.date_col, mn, wn))

\* tracker.py lines 81-136: the columns, the week filter, the employees and
\* what is aggregated for each
PrepareTracker(manual_df_, sn_df_, mn, wn) ==
    WithColumns(manual_df_, sn_df_, mn, wn,
                extract_people_fields(manual_df_), extract_people_fields(sn_df_))

\* lines 139-153: the record of one employee, areas_text being what
\* synthesize_areas_to_improve returned
TrackerRow(r, areas_text) ==
    [ name |-> r.name, team_lead |-> r.team_lead, assessors |-> r.assessors,
      week |-> r.week, sn_count |-> r.sn_count, sn_avg |-> r.sn_avg,
      manual_count |-> r.manual_count, manual_avg |-> r.manual_avg,
      areas |-> areas_text ]

\* ------------------------------------------------------------- LLM client
NoClient == -1
KeyIdx == 0 .. (MaxKeys - 1)
KeyLists == { [k \in 1 .. n |-> k] : n \in 0 .. MaxKeys }

ProbeAnswers == {"ok", "rate_limit", "error"}
CompletionAnswers == {"text", "no_choices", "rate_limit", "error"}

\* RATE_LIMIT_PATTERNS, lines 18-21
RATE_LIMIT_PATTERNS ==
    { <<"r", "a", "t", "e", " ", "l", "i", "m", "i", "t">>,
      <<"q", "u", "o", "t", "a">>,
      <<"l", "i", "m", "i", "t", " ", "e", "x", "c", "e", "e", "d", "e", "d">>,
      <<"t", "o", "o", " ", "m", "a", "n", "y", " ", "r", "e", "q", "u", "e", "s", "t", "s">>,
      <<"4", "2", "9">>,
      <<"i", "n", "s", "u", "f", "f", "i", "c", "i", "e", "n", "t", "_", "q", "u", "o", "t", "a">> }

\* str(e) of the exception an answer of the service raises
ErrorMessage(a) ==
    IF a = "rate_limit" THEN <<"R", "a", "t", "e", " ", "l", "i", "m", "i", "t", " ", "r", "e", "a", "c", "h", "e", "d">>
    ELSE IF a = "error" THEN <<"I", "n", "v", "a", "l", "i", "d", " ", "A", "P", "I", " ", "K", "e", "y">>
    ELSE <<>>

\* pattern in error_lower
Contains(text, pattern) ==
    \E j \in 1 .. (Len(text) - Len(pattern) + 1) :
        SubSeq(text, j, j + Len(pattern) - 1) = pattern

\* is_rate_limit_error(error_msg): the lower-cased message contains a pattern
is_rate_limit_error(error_msg) ==
    IF Len(error_msg) = 0
    THEN FALSE
    ELSE \E pattern \in RATE_LIMIT_PATTERNS : Contains(lower(error_msg), pattern)

NoLimits == [k \in KeyIdx |-> FALSE]

NKeys == Len(api_keys)

\* all(st.session_state.groq_key_limits.get(i, False) for i in range(len(api_keys)))
AllLimited == \A k \in 0 .. (NKeys - 1) : groq_key_limits[k]

\* a faulty variant of FlagKey: the flag of the following key is set
FlagKeyOther(limits, k, a) ==
    IF a = "rate_limit" THEN [limits EXCEPT ![(k + 1) % MaxKeys] = TRUE] ELSE limits
\* a faulty variant of FlagKey: every failure sets the flag
FlagKeyAlways(limits, k, a) == [limits EXCEPT ![k] = TRUE]
\* a faulty variant of FlagKey: a rate-limit failure leaves no flag
FlagKeyNever(limits, k, a) == limits
\* st.session_state.groq_key_limits[k] = True after a rate-limit failure
FlagKey(limits, k, a) ==
    IF is_rate_limit_error(ErrorMessage(a)) THEN [limits EXCEPT ![k] = TRUE] ELSE limits

\* a faulty variant of KeyLimited: the flag is not looked at
KeyLimitedNever(limits, k) == FALSE
\* st.session_state.groq_key_limits[index], as lines 70 and 88 read it
KeyLimited(limits, k) == limits[k]

\* the keys the loop of line 84 visits: (current_index + i) % len(api_keys), i in 1..len-1
LoopLast == NKeys - 1

NoteRateLimit(k, a) ==
    IF is_rate_limit_error(ErrorMessage(a)) THEN rl_keys \cup {k} ELSE rl_keys

NoteProbe(k) ==
    /\ tried' = tried \cup {k}
    /\ probed' = probed \cup {k}
    /\ nprobes' = nprobes + 1
    /\ reprobed' = (reprobed \/ k \in probed)

LLMInit ==
    /\ api_keys \in KeyLists
    /\ groq_key_index = 0
    /\ groq_key_limits = NoLimits
    /\ pc = "idle"
    /\ caller = "none"
    /\ depth = 0
    /\ current_index = 0
    /\ i = 0
    /\ client = NoClient
    /\ result = ""
    /\ exc = FALSE
    /\ tried = {}
    /\ nprobes = 0
    /\ reprobed = FALSE
    /\ probed = {}
    /\ rl_keys = {}
    /\ answer = "none"

\* groq_chat_completion(prompt): line 151, client = get_next_groq_client()
CallChatCompletion ==
    /\ pc = "idle"
    /\ caller' = "groq_chat_completion"
    /\ pc' = "enter"
    /\ depth' = 0
    /\ client' = NoClient
    /\ result' = ""
    /\ exc' = FALSE
    /\ tried' = {}
    /\ nprobes' = 0
    /\ reprobed' = FALSE
    /\ probed' = {}
    /\ answer' = "none"
    /\ UNCHANGED <<api_keys, groq_key_index, groq_key_limits, current_index, i, rl_keys>>
    /\ UNCHANGED <<pick_vars, trk_vars, wom_vars>>

\* groq_complete(messages): lines 117-121
CallComplete ==
    /\ pc = "idle"
    /\ caller' = "groq_complete"
    /\ pc' = IF NKeys = 0 THEN "done" ELSE "enter"
    /\ depth' = 0
    /\ client' = NoClient
    /\ result' = ""
    /\ exc' = FALSE
    /\ tried' = {}
    /\ nprobes' = 0
    /\ reprobed' = FALSE
    /\ probed' = {}
    /\ answer' = "none"
    /\ UNCHANGED <<api_keys, groq_key_index, groq_key_limits, current_index, i, rl_keys>>
    /\ UNCHANGED <<pick_vars, trk_vars, wom_vars>>

\* get_next_groq_client(): lines 54-70
Enter ==
    /\ pc = "enter"
    /\ tried' = {}
    /\ IF NKeys = 0
       THEN /\ client' = NoClient
            /\ pc' = "selected"
            /\ UNCHANGED <<current_index, i>>
       ELSE /\ current_index' = groq_key_index
            /\ client' = NoClient
            /\ IF ~KeyLimited(groq_key_limits, groq_key_index)
               THEN pc' = "probe_current" /\ i' = i
               ELSE pc' = "loop" /\ i' = 1
    /\ UNCHANGED <<api_keys, groq_key_index, groq_key_limits, caller, depth, result,
                   exc, nprobes, reprobed, probed, rl_keys, answer>>
    /\ UNCHANGED <<pick_vars, trk_vars, wom_vars>>

\* lines 71-81: probe the current key
ProbeCurrent ==
    /\ pc = "probe_current"
    /\ \E a \in ProbeAnswers :
        /\ NoteProbe(current_index)
        /\ IF a = "ok"
           THEN /\ client' = current_index
                /\ pc' = "selected"
                /\ UNCHANGED <<groq_key_limits, i, rl_keys>>
           ELSE /\ groq_key_limits' = FlagKey(groq_key_limits, current_index, a)
                /\ rl_keys' = NoteRateLimit(current_index, a)
                /\ pc' = "loop"
                /\ i' = 1
                /\ client' = client
    /\ UNCHANGED <<api_keys, groq_key_index, caller, depth, current_index, result, exc,
                   answer>>
    /\ UNCHANGED <<pick_vars, trk_vars, wom_vars>>

\* lines 84-100: one iteration of the loop over the other keys
LoopStep ==
    /\ pc = "loop"
    /\ i <= LoopLast
    /\ LET next_index == (current_index + i) % NKeys IN
       IF KeyLimited(groq_key_limits, next_index)
       THEN /\ i' = i + 1
            /\ UNCHANGED <<groq_key_index, groq_key_limits, pc, client, tried, nprobes,
                           reprobed, probed, rl_keys>>
       ELSE \E a \in ProbeAnswers :
            /\ NoteProbe(next_index)
            /\ IF a = "ok"
               THEN /\ groq_key_index' = next_index
                    /\ client' = next_index
                    /\ pc' = "selected"
                    /\ UNCHANGED <<groq_key_limits, i, rl_keys>>
               ELSE /\ groq_key_limits' = FlagKey(groq_key_limits, next_index, a)
                    /\ rl_keys' = NoteRateLimit(next_index, a)
                    /\ i' = i + 1
                    /\ UNCHANGED <<groq_key_index, pc, client>>
    /\ UNCHANGED <<api_keys, caller, depth, current_index, result, exc, answer>>
    /\ UNCHANGED <<pick_vars, trk_vars, wom_vars>>

\* lines 102-111: the loop is exhausted
CheckAll ==
    /\ pc = "loop"
    /\ i > LoopLast
    /\ IF AllLimited
       THEN /\ groq_key_limits' = NoLimits
            /\ groq_key_index' = 0
            /\ rl_keys' = {}
            /\ IF depth < RecursionLimit
               THEN /\ depth' = depth + 1
                    /\ pc' = "enter"
                    /\ exc' = exc
               ELSE \* the interpreter's recursion limit ends the recursion of line 108
                    /\ exc' = TRUE
                    /\ pc' = "selected"
                    /\ depth' = depth
            /\ client' = client
       ELSE /\ client' = NoClient
            /\ pc' = "selected"
            /\ UNCHANGED <<groq_key_index, groq_key_limits, depth, exc, rl_keys>>
    /\ UNCHANGED <<api_keys, caller, current_index, i, result, tried, nprobes, reprobed,
                   probed, answer>>
    /\ UNCHANGED <<pick_vars, trk_vars, wom_vars>>

\* lines 151-153 and 121-123: back in the caller
AfterSelect ==
    /\ pc = "selected"
    /\ IF exc
       THEN pc' = "done" /\ result' = result
       ELSE IF client = NoClient
            THEN pc' = "done" /\ result' = ""
            ELSE pc' = "complete" /\ result' = result
    /\ UNCHANGED <<api_keys, groq_key_index, groq_key_limits, caller, depth, current_index,
                   i, client, exc, tried, nprobes, reprobed, probed, rl_keys, answer>>
    /\ UNCHANGED <<pick_vars, trk_vars, wom_vars>>

\* lines 155-188 and 125-145: the completion request and its except clause
Completion ==
    /\ pc = "complete"
    /\ \E a \in CompletionAnswers :
        /\ answer' = a
        /\ result' = IF a = "text" THEN "text" ELSE ""
        /\ groq_key_limits' = FlagKey(groq_key_limits, groq_key_index, a)
        /\ rl_keys' = NoteRateLimit(groq_key_index, a)
    /\ pc' = "done"
    /\ UNCHANGED <<api_keys, groq_key_index, caller, depth, current_index, i, client, exc,
                   tried, nprobes, reprobed, probed>>
    /\ UNCHANGED <<pick_vars, trk_vars, wom_vars>>

\* the caller has its answer; the session state stays for the next call
Return ==
    /\ pc = "done"
    /\ pc' = "idle"
    /\ caller' = "none"
    /\ depth' = 0
    /\ current_index' = 0
    /\ i' = 0
    /\ client' = NoClient
    /\ result' = ""
    /\ exc' = FALSE
    /\ tried' = {}
    /\ nprobes' = 0
    /\ reprobed' = FALSE
    /\ probed' = {}
    /\ answer' = "none"
    /\ UNCHANGED <<api_keys, groq_key_index, groq_key_limits, rl_keys>>
    /\ UNCHANGED <<pick_vars, trk_vars, wom_vars>>

LLMNext ==
    \/ CallChatCompletion
    \/ CallComplete
    \/ Enter
    \/ ProbeCurrent
    \/ LoopStep
    \/ CheckAll
    \/ AfterSelect
    \/ Completion
    \/ Return


\* ------------------------------------- pick_first_available_column, driven
\* column labels and candidates the arguments are drawn from
PickNames ==
    { <<"a">>, <<"A", " ">>, <<"a", "_">>, <<"b">>, <<"_", "B">>, <<"1">> }

PickIdle ==
    /\ pick_df = [is_none |-> FALSE, columns |-> <<>>, rows |-> <<>>]
    /\ pick_candidates = <<>>
    /\ pick_result = None
    /\ pick_pc = "input"

PickInit ==
    /\ pick_df \in {[is_none |-> b, columns |-> <<>>, rows |-> <<>>] : b \in BOOLEAN}
    /\ pick_candidates = <<>>
    /\ pick_result = None
    /\ pick_pc = "input"

\* the table gets one more column (labels are distinct)
PickAddColumn ==
    /\ pick_pc = "input"
    /\ ~pick_df.is_none
    /\ pick_df.rows = <<>>
    /\ Len(pick_df.columns) < MaxCols
    /\ \E n \in PickNames :
        /\ n \notin SeqToSet(pick_df.columns)
        /\ pick_df' = [pick_df EXCEPT !.columns = Append(@, n)]
    /\ UNCHANGED <<pick_candidates, pick_result, pick_pc>>
    /\ UNCHANGED <<llm_vars, trk_vars, wom_vars>>

\* the table gets a row
PickAddRow ==
    /\ pick_pc = "input"
    /\ ~pick_df.is_none
    /\ pick_df.rows = <<>>
    /\ pick_df' = [pick_df EXCEPT !.rows = <<[j \in 1 .. Len(pick_df.columns) |-> "x"]>>]
    /\ UNCHANGED <<pick_candidates, pick_result, pick_pc>>
    /\ UNCHANGED <<llm_vars, trk_vars, wom_vars>>

PickAddCandidate ==
    /\ pick_pc = "input"
    /\ Len(pick_candidates) < MaxCands
    /\ \E n \in PickNames : pick_candidates' = Append(pick_candidates, n)
    /\ UNCHANGED <<pick_df, pick_result, pick_pc>>
    /\ UNCHANGED <<llm_vars, trk_vars, wom_vars>>

\* the call
PickCall ==
    /\ pick_pc = "input"
    /\ pick_result' = pick_first_available_column(pick_df, pick_candidates)
    /\ pick_pc' = "done"
    /\ UNCHANGED <<pick_df, pick_candidates>>
    /\ UNCHANGED <<llm_vars, trk_vars, wom_vars>>

PickNext ==
    \/ PickAddColumn
    \/ PickAddRow
    \/ PickAddCandidate
    \/ PickCall


\* ------------------------------------------------- generate_tracker, driven
\* the headers the two spreadsheets come with
ManualHeader1 ==
    <<<<"E", "m", "p", "l", "o", "y", "e", "e", " ", "N", "a", "m", "e">>,
      <<"T", "e", "a", "m", " ", "L", "e", "a", "d">>,
      <<"W", "e", "e", "k">>,
      <<"G", "r", "a", "d", "e">>,
      <<"C", "o", "m", "m", "e", "n", "t", "s">>>>
ManualHeader2 ==
    <<<<"a", "n", "a", "l", "y", "s", "t">>,
      <<"D", "a", "t", "e">>,
      <<"M", "a", "r", "k", "s">>>>
ManualHeader3 ==
    <<<<"N", "a", "m", "e">>,
      <<"G", "r", "a", "d", "e">>>>
ManualHeader4 ==
    <<<<"W", "e", "e", "k">>,
      <<"G", "r", "a", "d", "e">>>>
SnHeader1 ==
    <<<<"E", "m", "p", "l", "o", "y", "e", "e", " ", "N", "a", "m", "e">>,
      <<"T", "e", "a", "m", " ", "L", "e", "a", "d">>,
      <<"A", "s", "s", "e", "s", "s", "o", "r">>,
      <<"W", "e", "e", "k">>,
      <<"R", "a", "t", "i", "n", "g">>>>
SnHeader2 ==
    <<<<"A", "n", "a", "l", "y", "s", "t", " ", "N", "a", "m", "e">>,
      <<"C", "r", "e", "a", "t", "e", "d">>,
      <<"T", "r", "a", "i", "n", "e", "e", "_", "R", "a", "t", "i", "n", "g">>,
      <<"N", "o", "t", "e", "s">>>>
SnHeader3 ==
    <<<<"W", "e", "e", "k">>,
      <<"R", "a", "t", "i", "n", "g">>>>

ManualHeader5 ==
    <<<<"N", "a", "m", "e">>,
      <<"C", "o", "m", "m", "e", "n", "t", "s">>>>
SnHeader4 ==
    <<<<"N", "a", "m", "e">>,
      <<"A", "s", "s", "e", "s", "s", "o", "r">>>>

\* the (manual, ticketing) header pairs a session starts from
HeaderPairs ==
    { <<ManualHeader1, SnHeader1>>, <<ManualHeader2, SnHeader2>>,
      <<ManualHeader3, SnHeader3>>, <<ManualHeader4, SnHeader1>>,
      <<ManualHeader5, SnHeader4>> }

\* the selected (month_n, week_n)
Targets == { <<3, 2>> }

\* the rows a table with that header is filled from
RowMenu(header) ==
    CASE header = ManualHeader1 ->
        { <<Str(<<"A", "n", "n">>), Str(<<"B", "o", "b">>), Num(2), Num(4), Str(<<"o", "k">>)>>,
          <<Str(<<" ", "a", "n", "n", " ">>), Str(<<" ", "B", "o", "b">>), Str(<<"W", "2">>), Str(<<"A">>), NaN>>,
          <<Str(<<"C", "y", " ", "L", "i">>), Str(<<"D", "e", "e">>), Num(3), Str(<<"n", "/", "a">>), Str(<<>>)>>,
          <<Str(<<"A", "N", "N">>), NaN, Str(<<"2">>), NaN, Str(<<" ">>)>> }
      [] header = SnHeader1 ->
        { <<Str(<<"a", "n", "n">>), Str(<<"D", "e", "e">>), Str(<<"Q", "1">>), Num(2), Num(5)>>,
          <<Str(<<"c", "y", " ", " ", "l", "i">>), Str(<<"D", "e", "e">>), Str(<<"q", "2">>), Str(<<"w", "e", "e", "k", " ", "2">>), Str(<<"4">>)>>,
          <<Str(<<"C", "y", " ", "L", "i">>), Str(<<"B", "o", "b">>), NaN, Str(<<"2">>), Str(<<"b", "a", "d">>)>>,
          <<Str(<<"A", "n", "n">>), Str(<<"D", "e", "e">>), Str(<<"Q", "1", " ">>), Num(12), Num(3)>> }
      [] header = ManualHeader2 ->
        { <<Str(<<"a", "n", "n">>), Date(2025, 3, 3), Num(4)>>,
          <<Str(<<"a", "n", "n">>), Date(2025, 3, 1), Num(5)>>,
          <<Str(<<"b", "o">>), Date(2025, 4, 8), Str(<<"B">>)>>,
          <<Str(<<"b", "o">>), NaN, Num(3)>> }
      [] header = SnHeader2 ->
        { <<Str(<<"B", "o">>), Date(2025, 3, 9), Num(5), Str(<<"p", "m">>)>>,
          <<Str(<<"b", "o">>), Str(<<"t", "b", "d">>), Num(4), Str(<<>>)>>,
          <<Str(<<"a", "n", "n">>), Date(2025, 3, 10), Num(3), NaN>>,
          <<Str(<<"a", "n", "n">>), Date(2025, 4, 13), Str(<<"x">>), Str(<<"o", "k">>)>> }
      [] header = ManualHeader3 ->
        { <<Str(<<"a", "n", "n">>), Num(4)>>,
          <<Str(<<"a", "n", "n">>), Str(<<"n", "/", "a">>)>>,
          <<Str(<<"b", "o">>), Str(<<"A">>)>>,
          <<Str(<<" ">>), NaN>> }
      [] header = SnHeader3 ->
        { <<Num(2), Num(5)>>,
          <<Num(3), Num(4)>> }
      [] header = ManualHeader4 ->
        { <<Num(2), Num(4)>>,
          <<Num(3), Str(<<"B">>)>> }
      [] header = ManualHeader5 ->
        { <<Str(<<"a", "n", "n">>), Str(<<"l", "a", "t", "e">>)>>,
          <<Str(<<"A", "n", "n">>), Str(<<" ">>)>>,
          <<Str(<<"b", "o">>), NaN>> }
      [] header = SnHeader4 ->
        { <<Str(<<"a", "n", "n">>), Str(<<"Q", "1">>)>>,
          <<Str(<<"b", "o">>), Str(<<>>)>> }
      [] OTHER -> {}

NoTracker == [err |-> "none", rows |-> <<>>]
\* what groq_chat_completion does when asked: a completion, a failure degraded
\* to the empty string, or an exception that leaves it
LLMOutcomes == {"text", "empty", "raise"}

TrkIdle ==
    /\ manual_df = [is_none |-> FALSE, columns |-> <<>>, rows |-> <<>>]
    /\ sn_df = [is_none |-> FALSE, columns |-> <<>>, rows |-> <<>>]
    /\ month_n = 1
    /\ week_n = 1
    /\ tracker = NoTracker
    /\ llm_requests = <<>>
    /\ pending = <<>>
    /\ trk_pc = "input"

TrkInit ==
    /\ \E hp \in HeaderPairs :
        /\ manual_df = [is_none |-> FALSE, columns |-> hp[1], rows |-> <<>>]
        /\ sn_df = [is_none |-> FALSE, columns |-> hp[2], rows |-> <<>>]
    /\ \E t \in Targets : month_n = t[1] /\ week_n = t[2]
    /\ tracker = NoTracker
    /\ llm_requests = <<>>
    /\ pending = <<>>
    /\ trk_pc = "input"

\* a row of the manual spreadsheet is read
AddManualRow ==
    /\ trk_pc = "input"
    /\ Len(manual_df.rows) + Len(sn_df.rows) < MaxRows
    /\ \E r \in RowMenu(manual_df.columns) :
        manual_df' = [manual_df EXCEPT !.rows = Append(@, r)]
    /\ UNCHANGED <<sn_df, month_n, week_n, tracker, llm_requests, pending, trk_pc>>
    /\ UNCHANGED <<llm_vars, pick_vars, wom_vars>>

\* a row of the ticketing export is read
AddSnRow ==
    /\ trk_pc = "input"
    /\ Len(manual_df.rows) + Len(sn_df.rows) < MaxRows
    /\ \E r \in RowMenu(sn_df.columns) :
        sn_df' = [sn_df EXCEPT !.rows = Append(@, r)]
    /\ UNCHANGED <<manual_df, month_n, week_n, tracker, llm_requests, pending, trk_pc>>
    /\ UNCHANGED <<llm_vars, pick_vars, wom_vars>>

\* generate_tracker(manual_df, sn_df, month_n, week_n, seed_examples), lines 82-118
StartGenerate ==
    /\ trk_pc = "input"
    /\ \E prep \in {PrepareTracker(manual_df, sn_df, month_n, week_n)} :
        /\ tracker' = [err |-> prep.err, rows |-> <<>>]
        /\ pending' = prep.recs
        /\ trk_pc' = IF prep.err = "none" THEN "loop" ELSE "done"
    /\ UNCHANGED <<manual_df, sn_df, month_n, week_n, llm_requests>>
    /\ UNCHANGED <<llm_vars, pick_vars, wom_vars>>

\* lines 120-153, one employee: synthesize_areas_to_improve, then the record
EmployeeStep ==
    /\ trk_pc = "loop"
    /\ pending # <<>>
    /\ LET r == Head(pending) IN
       IF ~r.asks
       THEN /\ tracker' = [tracker EXCEPT !.rows = Append(@, TrackerRow(r, EmptyStr))]
            /\ pending' = Tail(pending)
            /\ UNCHANGED <<llm_requests, trk_pc>>
       ELSE \E llm \in LLMOutcomes :
            /\ llm_requests' = Append(llm_requests, r.name)
            /\ IF llm = "raise"
               THEN /\ tracker' = [err |-> "RecursionError", rows |-> <<>>]
                    /\ pending' = <<>>
                    /\ trk_pc' = "done"
               ELSE /\ tracker' = [tracker EXCEPT !.rows =
                          Append(@, TrackerRow(r, IF llm = "text" THEN LLMText
                                                  ELSE EmptyStr))]
                    /\ pending' = Tail(pending)
                    /\ trk_pc' = trk_pc
    /\ UNCHANGED <<manual_df, sn_df, month_n, week_n>>
    /\ UNCHANGED <<llm_vars, pick_vars, wom_vars>>

\* lines 155-162: the records become the returned table
FinishTracker ==
    /\ trk_pc = "loop"
    /\ pending = <<>>
    /\ trk_pc' = "done"
    /\ UNCHANGED <<manual_df, sn_df, month_n, week_n, tracker, llm_requests, pending>>
    /\ UNCHANGED <<llm_vars, pick_vars, wom_vars>>

TrkNext ==
    \/ AddManualRow
    \/ AddSnRow
    \/ StartGenerate
    \/ EmployeeStep
    \/ FinishTracker

\* ------------------------------------------------- week_of_month, driven
IsLeap(y) == (y % 4 = 0 /\ y % 100 # 0) \/ y % 400 = 0
DaysInMonth(y, m) ==
    IF m = 2 THEN (IF IsLeap(y) THEN 29 ELSE 28)
    ELSE IF m \in {4, 6, 9, 11} THEN 30 ELSE 31

\* the dates week_of_month is called with: every day of a run of years
\* around 2000, a leap year
WomYears == 1999 .. (1999 + MaxYearSpan)
WomDates ==
    { Date(y, m, d) : y \in WomYears, m \in 1 .. 12, d \in 1 .. 31 }
WomValid(date) == DateDay(date) <= DaysInMonth(DateYear(date), DateMonth(date))
ValidDates == {x \in WomDates : WomValid(x)}

WomIdle ==
    /\ wom_date = Date(1999, 1, 1)
    /\ wom_result = 0
    /\ wom_pc = "input"

WomInit ==
    /\ wom_date \in ValidDates
    /\ wom_result = 0
    /\ wom_pc = "input"

\* week_of_month(date)
WomCall ==
    /\ wom_pc = "input"
    /\ wom_result' = week_of_month(wom_date)
    /\ wom_pc' = "done"
    /\ UNCHANGED wom_date
    /\ UNCHANGED <<llm_vars, pick_vars, trk_vars>>

\* the date of the day after, the run of years taken round
NextDay(date) ==
    IF DateDay(date) < DaysInMonth(DateYear(date), DateMonth(date))
    THEN Date(DateYear(date), DateMonth(date), DateDay(date) + 1)
    ELSE IF DateMonth(date) < 12
    THEN Date(DateYear(date), DateMonth(date) + 1, 1)
    ELSE IF DateYear(date) + 1 \in WomYears
    THEN Date(DateYear(date) + 1, 1, 1)
    ELSE Date(1999, 1, 1)

\* the next row's date is read
WomAnother ==
    /\ wom_pc = "done"
    /\ wom_date' = NextDay(wom_date)
    /\ wom_result' = 0
    /\ wom_pc' = "input"
    /\ UNCHANGED <<llm_vars, pick_vars, trk_vars>>

WomNext ==
    \/ WomCall
    \/ WomAnother

\* ------------------------------------------------------- specifications
\* the LLM client across calls
Init == LLMInit /\ PickIdle /\ TrkIdle /\ WomIdle
Next == LLMNext
Spec == Init /\ [][Next]_vars

\* pick_first_available_column over bounded tables and candidate lists
InitPick == LLMInit /\ api_keys = <<>> /\ PickInit /\ TrkIdle /\ WomIdle
NextPick == PickNext
SpecPick == InitPick /\ [][NextPick]_vars

\* generate_tracker over bounded spreadsheets
InitTracker == LLMInit /\ api_keys = <<>> /\ PickIdle /\ TrkInit /\ WomIdle
NextTracker == TrkNext
SpecTracker == InitTracker /\ [][NextTracker]_vars

\* week_of_month over the dates of a run of years
InitWeek == LLMInit /\ api_keys = <<>> /\ PickIdle /\ TrkIdle /\ WomInit
NextWeek == WomNext
SpecWeek == InitWeek /\ [][NextWeek]_vars

\* ------------------------------------------------------------------ claims

\* C1: any failure of the LLM path degrades to an empty improvement text: a
\* finished groq_chat_completion / groq_complete call has let no exception
\* escape, and when no client was available or the completion request failed
\* its result is the empty string.
C1_FailureDegradesToEmpty ==
    pc = "done" =>
        /\ ~exc
        /\ (client = NoClient \/ answer \in {"rate_limit", "error"}) => result = ""

\* C2: a rate-limit failure with key k sets k's flag, the flag stays set until
\* every key has been flagged, the next selection never hands out such a key,
\* and a selection gives up only when every key is flagged or failed its probe.
C2_RateLimitRotates ==
    /\ \A k \in rl_keys : groq_key_limits[k]
    /\ (pc \in {"selected", "complete"} /\ ~exc /\ client # NoClient) =>
            (client \notin rl_keys /\ client = groq_key_index)
    /\ (pc = "selected" /\ ~exc /\ client = NoClient /\ NKeys > 0) =>
            \A k \in 0 .. (NKeys - 1) : groq_key_limits[k] \/ k \in tried

\* a selection that had to rotate away from a rate-limited key
C2_Witness ==
    /\ pc = "complete"
    /\ rl_keys # {}
    /\ tried = {client}
    /\ client # 0

\* C3: within one call of get_next_groq_client, the reset-and-retry of line 108
\* included, no key is probed twice and at most len(api_keys) probes are made.
C3_LinearRetry == ~reprobed /\ nprobes <= NKeys



\* ------------------------------------------- reading a finished tracker
\* generate_tracker has returned its table
TrackerDone == trk_pc = "done" /\ tracker.err = "none"

MCols == extract_people_fields(manual_df)
SCols == extract_people_fields(sn_df)

\* the table has the resolved column
HasCol(df, col) == ColTruthy(col) /\ ColIndex(df, col) # 0

\* the words of a text: its maximal runs of non-whitespace characters
RECURSIVE Words(_)
Words(chars) ==
    IF chars = <<>> THEN <<>>
    ELSE IF Head(chars) \in SpaceChars THEN Words(Tail(chars))
    ELSE LET stop == Min({j \in 2 .. (Len(chars) + 1) :
                             j = Len(chars) + 1 \/ chars[j] \in SpaceChars})
         IN  <<SubSeq(chars, 1, stop - 1)>> \o Words(SubSeq(chars, stop, Len(chars)))

\* two names that differ in nothing but letter case and whitespace
SameName(a, b) == Words(lower(a)) = Words(lower(b))

\* the text of a row's name cell, empty for a blank cell or no name column
NameText(df, cols, row) ==
    IF RowGet(df, row, cols.name_col).k \in {"nan", "none"} THEN <<>>
    ELSE PyStr(RowGet(df, row, cols.name_col))

\* the row is of the selected week as the week filter reads it: by its week
\* column if the table has one, else by its date column if the table has one,
\* and every row of a table that has neither
InSelectedWeek(df, cols, row) ==
    IF HasCol(df, cols.week_col)
    THEN FirstNumber(PyStr(RowGet(df, row, cols.week_col))) = week_n
    ELSE IF HasCol(df, cols.date_col)
    THEN /\ RowGet(df, row, cols.date_col).k = "date"
         /\ DateMonth(RowGet(df, row, cols.date_col)) = month_n
         /\ week_of_month(RowGet(df, row, cols.date_col)) = week_n
    ELSE TRUE

\* the row is of the selected week by its week column, or else by its date
InStatedWeek(df, cols, row) ==
    IF HasCol(df, cols.week_col)
    THEN FirstNumber(PyStr(RowGet(df, row, cols.week_col))) = week_n
    ELSE /\ HasCol(df, cols.date_col)
         /\ RowGet(df, row, cols.date_col).k = "date"
         /\ DateMonth(RowGet(df, row, cols.date_col)) = month_n
         /\ week_of_month(RowGet(df, row, cols.date_col)) = week_n

\* the rows of a table that name an employee and are of the selected week
EmployeeRows(df, cols) ==
    IF ~ColTruthy(cols.name_col) THEN {}
    ELSE {j \in 1 .. Len(df.rows) :
            /\ InSelectedWeek(df, cols, df.rows[j])
            /\ RowGet(df, df.rows[j], cols.name_col).k # "nan"}

\* those of them that are rows of the employee called name
RowsOf(df, cols, name) ==
    {j \in EmployeeRows(df, cols) :
        /\ Words(NameText(df, cols, df.rows[j])) # <<>>
        /\ SameName(NameText(df, cols, df.rows[j]), name)}

TrackerNames == [j \in 1 .. Len(tracker.rows) |-> tracker.rows[j].name]

\* a count field as a number, the empty string standing for none
CountVal(cell) == IF cell = EmptyStr THEN 0 ELSE cell.n
\* the number of values an average field was taken over
AvgCount(cell) == IF cell = EmptyStr THEN 0 ELSE cell.c

\* C4: one summary row per employee. The names of the tracker's rows are
\* exactly the employee keys of the rows of the selected week of the manual
\* table and of the ticketing export, no key is in two rows, and the rows are
\* in ascending key order.
C4_OneRowPerEmployee ==
    TrackerDone =>
        /\ SeqToSet(TrackerNames) =
              { build_employee_key(RowGet(manual_df, manual_df.rows[j], MCols.name_col)) :
                    j \in EmployeeRows(manual_df, MCols) }
              \cup
              { build_employee_key(RowGet(sn_df, sn_df.rows[j], SCols.name_col)) :
                    j \in EmployeeRows(sn_df, SCols) }
        /\ \A a, b \in 1 .. Len(tracker.rows) :
              a < b => /\ TrackerNames[a] # TrackerNames[b]
                       /\ StrLess(TrackerNames[a], TrackerNames[b])

\* two employees, one of them met in the ticketing export only, the other in
\* several rows
C4_Witness ==
    /\ TrackerDone
    /\ Len(tracker.rows) = 2
    /\ \E t \in 1 .. 2 :
          /\ RowsOf(manual_df, MCols, TrackerNames[t]) = {}
          /\ RowsOf(sn_df, SCols, TrackerNames[t]) # {}
    /\ \E t \in 1 .. 2 :
          Cardinality(RowsOf(manual_df, MCols, TrackerNames[t])) >= 2

\* C5: employee keys are case/whitespace normalized. Name cells that differ
\* only in letter case or whitespace, in one table or across the two, give the
\* same key and feed the same tracker row: each named row of the selected week
\* has exactly one tracker row of its name, and a tracker row counts every
\* manual row and every numerically rated ticketing row of its name.
C5_NamesNormalized ==
    TrackerDone =>
        /\ \A j \in EmployeeRows(manual_df, MCols) :
              Cardinality({t \in 1 .. Len(tracker.rows) :
                  SameName(TrackerNames[t], NameText(manual_df, MCols, manual_df.rows[j]))}) = 1
        /\ \A j \in EmployeeRows(sn_df, SCols) :
              Cardinality({t \in 1 .. Len(tracker.rows) :
                  SameName(TrackerNames[t], NameText(sn_df, SCols, sn_df.rows[j]))}) = 1
        /\ \A t \in 1 .. Len(tracker.rows) :
              /\ HasCol(manual_df, MCols.manual_grade_col) =>
                    CountVal(tracker.rows[t].manual_count) =
                        Cardinality(RowsOf(manual_df, MCols, TrackerNames[t]))
              /\ HasCol(sn_df, SCols.sn_rating_col) =>
                    CountVal(tracker.rows[t].sn_count) =
                        Cardinality({j \in RowsOf(sn_df, SCols, TrackerNames[t]) :
                            ToNumeric(RowGet(sn_df, sn_df.rows[j], SCols.sn_rating_col)) # -1})

\* one tracker row fed by two manual rows and a ticketing row whose name
\* cells are three different texts
C5_Witness ==
    /\ TrackerDone
    /\ \E t \in 1 .. Len(tracker.rows) :
          /\ CountVal(tracker.rows[t].manual_count) = 2
          /\ CountVal(tracker.rows[t].sn_count) = 1
          /\ \E a, b \in RowsOf(manual_df, MCols, TrackerNames[t]) :
             \E c \in RowsOf(sn_df, SCols, TrackerNames[t]) :
                /\ NameText(manual_df, MCols, manual_df.rows[a])
                      # NameText(manual_df, MCols, manual_df.rows[b])
                /\ NameText(sn_df, SCols, sn_df.rows[c])
                      # NameText(manual_df, MCols, manual_df.rows[a])
                /\ NameText(sn_df, SCols, sn_df.rows[c])
                      # NameText(manual_df, MCols, manual_df.rows[b])

\* C6: ratings are numeric after coercion. In every tracker row each reported
\* count, Service Now and Manual, is the number of values its average was
\* taken over.
C6_CountIsValuesAveraged ==
    TrackerDone =>
        \A t \in 1 .. Len(tracker.rows) :
            /\ CountVal(tracker.rows[t].sn_count) = AvgCount(tracker.rows[t].sn_avg)
            /\ CountVal(tracker.rows[t].manual_count) = AvgCount(tracker.rows[t].manual_avg)

\* some table has a date column the week filter reads, with a cell that is
\* neither blank nor a date
UnreadableDate(df, cols) ==
    /\ ~DfEmpty(df)
    /\ ~HasCol(df, cols.week_col)
    /\ HasCol(df, cols.date_col)
    /\ \E j \in 1 .. Len(df.rows) :
          RowGet(df, df.rows[j], cols.date_col).k \notin {"nan", "date"}

\* C7: missing columns degrade to empty fields. A column neither table has
\* (or, for the rating and the grade, the one table that supplies it lacks, or
\* that table has no name column) raises no error and leaves the field of
\* every row the empty string; two empty tables give an empty tracker. An
\* error comes only from a completion request or an unreadable date.
C7_MissingColumnsGiveEmptyFields ==
    trk_pc = "done" =>
        /\ tracker.err = "ValueError" =>
              UnreadableDate(manual_df, MCols) \/ UnreadableDate(sn_df, SCols)
        /\ tracker.err = "RecursionError" => llm_requests # <<>>
        /\ (~HasCol(manual_df, MCols.comments_col) /\ ~HasCol(sn_df, SCols.comments_col)) =>
              llm_requests = <<>>
        /\ (DfEmpty(manual_df) /\ DfEmpty(sn_df)) =>
              (tracker.err = "none" /\ tracker.rows = <<>>)
        /\ tracker.err = "none" =>
              \A t \in 1 .. Len(tracker.rows) :
                /\ (~HasCol(manual_df, MCols.tl_col) /\ ~HasCol(sn_df, SCols.tl_col)) =>
                      tracker.rows[t].team_lead = <<>>
                /\ (~HasCol(manual_df, MCols.qa_col) /\ ~HasCol(sn_df, SCols.qa_col)) =>
                      tracker.rows[t].assessors = <<>>
                /\ (~HasCol(sn_df, SCols.sn_rating_col) \/ ~HasCol(sn_df, SCols.name_col)) =>
                      /\ tracker.rows[t].sn_count = EmptyStr
                      /\ tracker.rows[t].sn_avg = EmptyStr
                /\ (~HasCol(manual_df, MCols.manual_grade_col)
                        \/ ~HasCol(manual_df, MCols.name_col)) =>
                      /\ tracker.rows[t].manual_count = EmptyStr
                      /\ tracker.rows[t].manual_avg = EmptyStr
                /\ (~HasCol(manual_df, MCols.comments_col)
                        /\ ~HasCol(sn_df, SCols.comments_col)) =>
                      tracker.rows[t].areas = EmptyStr

\* a tracker with rows from tables both of which have rows, the manual one
\* without a grade column and the ticketing one without a rating column,
\* neither with a team-lead column
C7_Witness ==
    /\ TrackerDone
    /\ tracker.rows # <<>>
    /\ Len(manual_df.rows) > 0
    /\ Len(sn_df.rows) > 0
    /\ ~HasCol(manual_df, MCols.manual_grade_col)
    /\ ~HasCol(sn_df, SCols.sn_rating_col)
    /\ ~HasCol(manual_df, MCols.tl_col)
    /\ ~HasCol(sn_df, SCols.tl_col)
    /\ tracker.rows[1].manual_count = EmptyStr
    /\ tracker.rows[1].team_lead = <<>>

\* what a tracker row reports, the LLM's text aside
Reported(r) ==
    [ name |-> r.name, team_lead |-> r.team_lead, assessors |-> r.assessors,
      week |-> r.week, sn_count |-> r.sn_count, sn_avg |-> r.sn_avg,
      manual_count |-> r.manual_count, manual_avg |-> r.manual_avg ]
ReportedAll(rs) == [j \in 1 .. Len(rs) |-> Reported(rs[j])]

\* the table without the rows that are not of the week
OnlyWeek(df, cols, Belongs(_, _, _)) ==
    [df EXCEPT !.rows =
        SelectRows(df.rows, [j \in 1 .. Len(df.rows) |-> Belongs(df, cols, df.rows[j])])]

\* the tracker is the one the rows of the week alone give
OnlyWeekRowsContribute(Belongs(_, _, _)) ==
    TrackerDone =>
        ReportedAll(tracker.rows) =
            ReportedAll(PrepareTracker(OnlyWeek(manual_df, MCols, Belongs),
                                       OnlyWeek(sn_df, SCols, Belongs),
                                       month_n, week_n).recs)

RECURSIVE TeamLeadValues(_, _, _, _)
TeamLeadValues(df, cols, js, from) ==
    IF from > Len(df.rows) \/ ~HasCol(df, cols.tl_col) THEN <<>>
    ELSE (IF from \in js
             /\ RowGet(df, df.rows[from], cols.tl_col).k \in {"str", "num"}
             /\ strip(PyStr(RowGet(df, df.rows[from], cols.tl_col))) # <<>>
          THEN <<strip(PyStr(RowGet(df, df.rows[from], cols.tl_col)))>>
          ELSE <<>>)
         \o TeamLeadValues(df, cols, js, from + 1)

\* the team leads of an employee, manual rows before ticketing rows
TeamLeadsOf(name) ==
    TeamLeadValues(manual_df, MCols, RowsOf(manual_df, MCols, name), 1)
        \o TeamLeadValues(sn_df, SCols, RowsOf(sn_df, SCols, name), 1)

\* v is the majority of xs: no value occurs more often, and of the values
\* occurring as often none is met earlier
IsMajority(v, xs) ==
    /\ v \in SeqToSet(xs)
    /\ \A w \in SeqToSet(xs) :
          \/ Count(xs, w) < Count(xs, v)
          \/ Count(xs, w) = Count(xs, v) /\ FirstOcc(xs, v) <= FirstOcc(xs, w)

\* C9: the Team Lead of a tracker row is the majority team lead of the
\* employee's rows of the selected week, both sources together, ties going to
\* the value met first, and empty when the rows hold no team lead.
C9_MajorityTeamLead ==
    TrackerDone =>
        \A t \in 1 .. Len(tracker.rows) :
            IF TeamLeadsOf(TrackerNames[t]) = <<>>
            THEN tracker.rows[t].team_lead = <<>>
            ELSE IsMajority(tracker.rows[t].team_lead, TeamLeadsOf(TrackerNames[t]))

\* C10: two-pass column resolution. None for a None/empty table; otherwise the
\* left-most column equal, case-insensitively and trimmed, to the earliest
\* candidate that has such a column; only if no candidate has one, the
\* left-most column equal to the earliest candidate after both are reduced to
\* their letters a-z; the result is None or a column of the table.
SameTrimmedNoCase(a, b) == strip(lower(a)) = strip(lower(b))
LettersOnly(a) == FilterChars(strip(lower(a)), LowerLetters)
C10_ColsMatching(rel(_, _), cand) ==
    {j \in 1 .. Len(pick_df.columns) : rel(pick_df.columns[j], cand)}
C10_Resolves(rel(_, _), col) ==
    \E c \in 1 .. Len(pick_candidates) :
        /\ C10_ColsMatching(rel, pick_candidates[c]) # {}
        /\ \A e \in 1 .. (c - 1) : C10_ColsMatching(rel, pick_candidates[e]) = {}
        /\ col = pick_df.columns[Min(C10_ColsMatching(rel, pick_candidates[c]))]
C10_SameLetters(a, b) == LettersOnly(a) = LettersOnly(b)
C10_AnyMatch(rel(_, _)) ==
    \E c \in 1 .. Len(pick_candidates) : C10_ColsMatching(rel, pick_candidates[c]) # {}
C10_TwoPassMatch ==
    pick_pc = "done" =>
        /\ pick_result = None \/ pick_result \in SeqToSet(pick_df.columns)
        /\ (pick_df.is_none \/ DfEmpty(pick_df)) => pick_result = None
        /\ (~pick_df.is_none /\ ~DfEmpty(pick_df)) =>
            IF C10_AnyMatch(SameTrimmedNoCase)
            THEN C10_Resolves(SameTrimmedNoCase, pick_result)
            ELSE IF C10_AnyMatch(C10_SameLetters)
                 THEN C10_Resolves(C10_SameLetters, pick_result)
                 ELSE pick_result = None

\* resolved in the second pass, by the second candidate, with two columns
\* reducing to the same letters
C10_Witness ==
    /\ pick_pc = "done"
    /\ pick_result # None
    /\ ~C10_AnyMatch(SameTrimmedNoCase)
    /\ Len(pick_candidates) = 2
    /\ C10_ColsMatching(C10_SameLetters, pick_candidates[1]) = {}
    /\ Cardinality(C10_ColsMatching(C10_SameLetters, pick_candidates[2])) = 2

\* --------------------------------------------------------- calendar weeks
\* date.toordinal(): the days from 0001-01-01, a Monday, which is day 1
RECURSIVE DaysBeforeMonth(_, _)
DaysBeforeMonth(y, m) ==
    IF m = 1 THEN 0 ELSE DaysBeforeMonth(y, m - 1) + DaysInMonth(y, m - 1)
Ordinal(y, m, d) ==
    (365 * (y - 1)) + ((y - 1) \div 4) - ((y - 1) \div 100) + ((y - 1) \div 400)
        + DaysBeforeMonth(y, m) + d
\* the Monday-to-Sunday week a date falls in, and its weekday, Monday being 0
CalendarWeek(y, m, d) == (Ordinal(y, m, d) - 1) \div 7
Weekday(y, m, d) == (Ordinal(y, m, d) - 1) % 7

\* C11: week_of_month(date) = ceil((day + weekday of the 1st, Monday = 0) / 7).
\* For every valid date the result is in 1..6, it does not decrease with the
\* day within the month, and two dates of one month get the same value exactly
\* when they are in the same Monday-to-Sunday calendar week.
C11_WeekOfMonth ==
    wom_pc = "done" =>
        /\ wom_result \in 1 .. 6
        /\ wom_result * 7 >=
              DateDay(wom_date) + Weekday(DateYear(wom_date), DateMonth(wom_date), 1)
        /\ (wom_result - 1) * 7 <
              DateDay(wom_date) + Weekday(DateYear(wom_date), DateMonth(wom_date), 1)
        /\ \A e \in 1 .. DaysInMonth(DateYear(wom_date), DateMonth(wom_date)) :
              /\ e >= DateDay(wom_date) =>
                    week_of_month(Date(DateYear(wom_date), DateMonth(wom_date), e))
                        >= wom_result
              /\ (week_of_month(Date(DateYear(wom_date), DateMonth(wom_date), e))
                        = wom_result)
                    <=> (CalendarWeek(DateYear(wom_date), DateMonth(wom_date), e)
                            = CalendarWeek(DateYear(wom_date), DateMonth(wom_date),
                                           DateDay(wom_date)))

\* a day in the sixth week of its month
C11_Witness ==
    /\ wom_pc = "done"
    /\ wom_result = 6
    /\ DateDay(wom_date) >= 30

\* a step of the client that keeps to the flags: a probe is of a key not yet
\* probed by this activation whose flag is not set, a client is handed out
\* only for a key whose flag is not set, and a flag is cleared only when every
\* configured key is flagged, all flags together, groq_key_index going to 0
C12_StepKeepsFlags ==
    /\ nprobes' = nprobes + 1 =>
          \E k \in KeyIdx :
              /\ k \notin tried
              /\ tried' = tried \cup {k}
              /\ ~groq_key_limits[k]
    /\ (client' # NoClient /\ client' # client) =>
          (~groq_key_limits[client'] /\ ~groq_key_limits'[client'])
    /\ (\E k \in KeyIdx : groq_key_limits[k] /\ ~groq_key_limits'[k]) =>
          /\ NKeys > 0
          /\ \A k \in 0 .. (NKeys - 1) : groq_key_limits[k]
          /\ groq_key_limits' = NoLimits
          /\ groq_key_index' = 0
          /\ (pc' = "enter" \/ exc')

\* C12: a key whose rate-limit flag is set is skipped. get_next_groq_client
\* never probes it and never returns a client for it; flags are cleared only
\* all together, with groq_key_index reset to 0, when every configured key is
\* flagged, and the selection then starts again from key 0.
C12_FlaggedKeySkipped ==
    /\ [](pc = "probe_current" /\ depth > 0 => current_index = 0)
    /\ [][C12_StepKeepsFlags]_vars

\* two keys, both flagged when the call began: none was probed before the
\* reset, and the selection after it handed out key 0 at its first probe
C12_Witness ==
    /\ pc = "selected"
    /\ NKeys >= 2
    /\ depth = 1
    /\ nprobes = 1
    /\ client = 0

\* C13: get_next_groq_client terminates for every behaviour of the hosted
\* service: whatever the initial flags and the probe answers, the answer
\* "rate limit" to every probe included, a call comes back with a client or
\* with None, never with the recursion of line 108 cut off by the interpreter.
C13_SelectionReturns ==
    pc = "selected" => (~exc /\ (client = NoClient \/ client \in 0 .. (NKeys - 1)))

\* the handed-out client is the one of groq_key_index, and its flag is not set
C14_ClientIsCurrentKey ==
    /\ NKeys > 0 => groq_key_index \in 0 .. (NKeys - 1)
    /\ (pc \in {"selected", "complete"} /\ ~exc /\ client # NoClient) =>
            /\ client = groq_key_index
            /\ ~groq_key_limits[groq_key_index]

\* the except clause of a completion call changes the flag of the used key only,
\* and sets it when the failure is a rate-limit error
C14_CompletionFlagsUsedKey ==
    (pc = "complete" /\ pc' = "done") =>
        /\ \A k \in KeyIdx : groq_key_limits'[k] # groq_key_limits[k] => k = client
        /\ answer' = "rate_limit" => groq_key_limits'[client]
        /\ groq_key_index' = groq_key_index

\* C14: with a fixed non-empty key list groq_key_index stays a valid index
\* 0..len(api_keys)-1; whenever get_next_groq_client returns a client,
\* groq_key_index is the index of the key the client was built from and that
\* key's flag is false, so a later completion failure flags exactly that key.
C14_KeyIndexInvariant ==
    /\ []C14_ClientIsCurrentKey
    /\ [][C14_CompletionFlagsUsedKey]_vars

\* a completion failed with a rate-limit error on a client the loop over the
\* other keys had selected: the flag set is the one of that key
C14_Witness ==
    /\ pc = "done"
    /\ answer = "rate_limit"
    /\ client # NoClient
    /\ client # current_index
    /\ client = groq_key_index
    /\ groq_key_limits[client]
    /\ \A k \in KeyIdx \ {client} : ~groq_key_limits[k]

\* a step of the client that flags on rate-limit errors only: a flag goes up
\* only for a key whose failure message matched a pattern; a probe that failed
\* otherwise leaves flags and index alone; and when the loop ends with a probed
\* key still unflagged, nothing is reset and the selection returns None
C15_StepFlagsRateLimitOnly ==
    /\ \A k \in KeyIdx : (~groq_key_limits[k] /\ groq_key_limits'[k]) => k \in rl_keys'
    /\ \A k \in KeyIdx :
          (nprobes' = nprobes + 1 /\ k \in tried' \ tried /\ k \notin rl_keys' /\ client' = client) =>
              /\ groq_key_limits' = groq_key_limits
              /\ groq_key_index' = groq_key_index
              /\ ~KeyLimited(groq_key_limits', k)
    /\ (pc = "complete" /\ pc' = "done" /\ ~is_rate_limit_error(ErrorMessage(answer'))) =>
              /\ groq_key_limits' = groq_key_limits
              /\ groq_key_index' = groq_key_index
    /\ (pc = "loop" /\ i > LoopLast /\ \E k \in tried : ~groq_key_limits[k]) =>
              /\ groq_key_limits' = groq_key_limits
              /\ groq_key_index' = groq_key_index
              /\ pc' = "selected"
              /\ client' = NoClient
              /\ ~exc'

\* C15: only rate-limit errors flag a key. A probe or completion failure whose
\* message matches none of the rate-limit patterns sets no flag and triggers no
\* reset, the key stays eligible for the next call, and a selection whose
\* remaining keys fail this way returns None.
C15_OnlyRateLimitFlags ==
    /\ [](\A k \in KeyIdx : groq_key_limits[k] => k \in rl_keys)
    /\ [][C15_StepFlagsRateLimitOnly]_vars

\* a selection gave up with None: one key was flagged by a rate-limit error,
\* another failed its probe for a different reason and is still unflagged
C15_Witness ==
    /\ pc = "selected"
    /\ ~exc
    /\ client = NoClient
    /\ rl_keys # {}
    /\ \E k \in tried : ~groq_key_limits[k]

\* the rows of the selected week that belong to the employee called name
C16_RowsOfKey(df, cols, name) ==
    {j \in EmployeeRows(df, cols) :
        build_employee_key(RowGet(df, df.rows[j], cols.name_col)) = name}

\* the row's comment cell carries text: the table has a comments column and
\* the cell is neither missing nor blank
C16_HasCommentText(df, cols, j) ==
    /\ HasCol(df, cols.comments_col)
    /\ LET cell == RowGet(df, df.rows[j], cols.comments_col) IN
         \/ cell.k = "str" /\ strip(cell.s) # <<>>
         \/ cell.k \in {"num", "date"}

\* some row of the employee, in either source, carries comment text
C16_HasComments(name) ==
    \/ \E j \in C16_RowsOfKey(manual_df, MCols, name) : C16_HasCommentText(manual_df, MCols, j)
    \/ \E j \in C16_RowsOfKey(sn_df, SCols, name) : C16_HasCommentText(sn_df, SCols, j)

\* C16: no comments, no LLM call. For an employee whose rows of the selected
\* week carry no comment text in either source (no comments column, or every
\* comment cell missing or blank), generate_tracker makes no LLM request and
\* sets Areas to Improve to the empty string.
C16_NoCommentsNoRequest ==
    /\ \A j \in 1 .. Len(llm_requests) : C16_HasComments(llm_requests[j])
    /\ TrackerDone =>
          \A t \in 1 .. Len(tracker.rows) :
              ~C16_HasComments(tracker.rows[t].name) => tracker.rows[t].areas = EmptyStr
====
